---- MODULE Spec2Model ----
(***************************************************************************)
(* simple-llama: majority-vote benchmark of a language model.              *)
(*                                                                         *)
(*   evaluate.py    answer extraction and majority vote (pure functions)   *)
(*   model.py       OllamaModel.predict, the retrying backend client       *)
(*   benchmark.py   Benchmark: load, per-question collection, scoring      *)
(*   simplellama.py the entry point and its exception handlers             *)
(*                                                                         *)
(* A text (Python str) is a sequence of one-character strings, so that the *)
(* regular expression of extract_single_answer is matched character by     *)
(* character.  The empty str is << >>.                                     *)
(***************************************************************************)
EXTENDS Integers, Sequences, FiniteSets, TLC

\* ------------------------------------------------------------------ bounds
\* Longest response text, in fragments, given to extract_single_answer.
MaxTokens == 4
\* Longest answer list given to calculate_majority_vote.
MaxAnswers == 4
\* Longest list of model outputs given to the batch functions.
MaxOutputs == 3
\* Most questions in a benchmark file.
MaxQuestions == 2
\* Largest --num_responses.
MaxResponses == 2
\* Largest --max_retries.
MaxRetries == 2

\* -------------------------------------------------------------- characters
LowerCase ==
  << "a", "b", "c", "d", "e", "f", "g", "h", "i", "j", "k", "l", "m",
     "n", "o", "p", "q", "r", "s", "t", "u", "v", "w", "x", "y", "z" >>

UpperCase ==
  << "A", "B", "C", "D", "E", "F", "G", "H", "I", "J", "K", "L", "M",
     "N", "O", "P", "Q", "R", "S", "T", "U", "V", "W", "X", "Y", "Z" >>

\* str.upper() on one character.
ToUpper(c) ==
  IF \E i \in DOMAIN LowerCase : LowerCase[i] = c
  THEN UpperCase[CHOOSE i \in DOMAIN LowerCase : LowerCase[i] = c]
  ELSE c

\* Two characters are equal under re.IGNORECASE.
CaseEq(a, b) == ToUpper(a) = ToUpper(b)

\* The characters \s matches and str.strip() removes.
IsSpace(c) == c \in {" ", "\t", "\n", "\r"}

\* The literal prefix of the pattern r"Final Answer:\s*([A-F])".
Marker == << "F", "i", "n", "a", "l", " ", "A", "n", "s", "w", "e", "r", ":" >>

\* The character class [A-F] of the pattern (under IGNORECASE, a-f too).
AnswerClass == {"A", "B", "C", "D", "E", "F"}

InClass(c) == ToUpper(c) \in AnswerClass

\* --------------------------------------- evaluate.py: extract_single_answer
RECURSIVE LStrip(_)
LStrip(s) ==
  IF s # << >> /\ IsSpace(Head(s)) THEN LStrip(Tail(s)) ELSE s

RECURSIVE RStrip(_)
RStrip(s) ==
  IF s # << >> /\ IsSpace(s[Len(s)]) THEN RStrip(SubSeq(s, 1, Len(s) - 1)) ELSE s

\* output.strip()
Strip(s) == RStrip(LStrip(s))

\* The literal "Final Answer:" matches s at position p, ignoring case.
LiteralAt(s, p) ==
  /\ p + Len(Marker) - 1 <= Len(s)
  /\ \A k \in DOMAIN Marker : CaseEq(s[p + k - 1], Marker[k])

\* \s* is greedy: the first position at or after p that holds no whitespace.
RECURSIVE SkipSpaces(_, _)
SkipSpaces(s, p) ==
  IF p <= Len(s) /\ IsSpace(s[p]) THEN SkipSpaces(s, p + 1) ELSE p

\* Mutant: the pattern without \s*, the letter must follow the colon.
MatchAt_NoSpaces(s, p) ==
  IF LiteralAt(s, p)
  THEN LET g == p + Len(Marker)
       IN  IF g <= Len(s) /\ InClass(s[g]) THEN g ELSE 0
  ELSE 0

\* The pattern matched at position p: the position of group 1, or 0.
\* (Backtracking \s* cannot help: the class [A-F] holds no whitespace.)
MatchAt(s, p) ==
  IF LiteralAt(s, p)
  THEN LET g == SkipSpaces(s, p + Len(Marker))
       IN  IF g <= Len(s) /\ InClass(s[g]) THEN g ELSE 0
  ELSE 0

\* re.search: the match at the leftmost position at or after p, or 0.
RECURSIVE SearchFrom(_, _)
SearchFrom(s, p) ==
  IF p > Len(s) THEN 0
  ELSE IF MatchAt(s, p) # 0 THEN MatchAt(s, p)
  ELSE SearchFrom(s, p + 1)

\* The outcome of a call: the exception it raised ("" for none) and its value.
Returned(v) == [raised |-> "", value |-> v]
Raised(e) == [raised |-> e, value |-> << >>]

extract_single_answer(output) ==
  LET s == Strip(output)
      g == SearchFrom(s, 1)
  IN  IF g = 0 THEN Raised("AnswerExtractionError")
      ELSE Returned(<< ToUpper(s[g]) >>)

\* ------------------------------------ evaluate.py: extract_multiple_answers
\* The loop over outputs: a success is appended, AnswerExtractionError is
\* caught and logged, nothing else is raised by extract_single_answer.
\* Mutant: the first failure ends the loop instead of being skipped.
RECURSIVE extract_multiple_answers_StopsAtFailure(_)
extract_multiple_answers_StopsAtFailure(outputs) ==
  IF outputs = << >> THEN << >>
  ELSE LET r == extract_single_answer(Head(outputs))
       IN  IF r.raised = ""
           THEN << r.value[1] >> \o extract_multiple_answers_StopsAtFailure(Tail(outputs))
           ELSE << >>

RECURSIVE extract_multiple_answers(_)
extract_multiple_answers(outputs) ==
  IF outputs = << >> THEN << >>
  ELSE LET r == extract_single_answer(Head(outputs))
       IN  IF r.raised = ""
           THEN << r.value[1] >> \o extract_multiple_answers(Tail(outputs))
           ELSE extract_multiple_answers(Tail(outputs))

\* -------------------------------------- evaluate.py: calculate_majority_vote
\* answers.count(correct_answer)
Count(answers, x) == Cardinality({i \in DOMAIN answers : answers[i] = x})

\* Mutant: ">=" for ">", so that an exact half passes.
calculate_majority_vote_TiePasses(answers, correct_answer) ==
  IF answers = << >> THEN FALSE
  ELSE 2 * Count(answers, correct_answer) >= Len(answers)

\* count > len / 2 with Python's true division: 2 * count > len.
calculate_majority_vote(answers, correct_answer) ==
  IF answers = << >> THEN FALSE
  ELSE 2 * Count(answers, correct_answer) > Len(answers)

\* ------------------------------------------- evaluate.py: eval_majority_vote
\* Mutant: the check of lines 87-88 is missing, an empty list is voted on.
eval_majority_vote_NoCheck(model_outputs, answer) ==
  LET extracted_answers == extract_multiple_answers(model_outputs)
  IN  [raised |-> "",
       is_majority |-> calculate_majority_vote(extracted_answers, answer),
       answers |-> extracted_answers]

eval_majority_vote(model_outputs, answer) ==
  LET extracted_answers == extract_multiple_answers(model_outputs)
  IN  IF extracted_answers = << >>
      THEN [raised |-> "ValueError", is_majority |-> FALSE, answers |-> << >>]
      ELSE [raised |-> "",
            is_majority |-> calculate_majority_vote(extracted_answers, answer),
            answers |-> extracted_answers]


\* --------------------------------------------------------------- the state
VARIABLES
  args,            \* simplellama.py: the parsed command line and the benchmark file
  pc,              \* the position of the main thread
  benchmark_data,  \* Benchmark.benchmark_data
  qi,              \* run: index of the next question the generator yields
  responses,       \* _collect_responses: responses collected for the question
  attempt,         \* predict: the loop variable of the retry loop
  total_score,     \* run: the sum accumulated so far
  final_score,     \* run: << >> until computed, then << numerator, denominator >>
  exc,             \* the exception in flight, [type, cause]
  exit_code,       \* sys.exit status, -1 while the process runs
  chatCalls,       \* history: calls of ollama.chat so far
  predictCalls,    \* history: calls of ollama.chat inside the current predict
  okPredicts,      \* history: predict calls that returned
  lastPrompt,      \* history: question_id whose prompt the last chat call sent
  lastOutcome,     \* history: how the last chat call ended, and its reply
  voteLog,         \* history: the "Majority Vote" log lines, << question_id, result >>
  fin,             \* a direct call of a function of evaluate.py: its arguments
  fout             \* ... and its outcome

runVars ==
  << args, pc, benchmark_data, qi, responses, attempt, total_score,
     final_score, exc, exit_code, chatCalls, predictCalls, okPredicts,
     lastPrompt, lastOutcome, voteLog >>

vars == << runVars, fin, fout >>

\* ------------------------------------------------------------------ inputs
\* All sequences over S of length at most n.
SeqsUpTo(S, n) == UNION {[1..k -> S] : k \in 0..n}

RECURSIVE Flatten(_)
Flatten(ss) == IF ss = << >> THEN << >> ELSE Head(ss) \o Flatten(Tail(ss))

MarkerLower ==
  << "f", "i", "n", "a", "l", " ", "a", "n", "s", "w", "e", "r", ":" >>

\* The pieces response texts are built from.
Fragments ==
  { Marker, MarkerLower, << " " >>, << "\n" >>, << "A" >>, << "f" >>, << "G" >>,
    << "A", "n", "s", "w", "e", "r", ":" >> }

TextInputs == { Flatten(ts) : ts \in SeqsUpTo(Fragments, MaxTokens) }

\* The response texts given to the batch functions.
Contents ==
  { Marker \o << " ", "A" >>,
    << "S", "o", " " >> \o MarkerLower \o << "b", ".", "\n" >>,
    << "I", " ", "p", "a", "s", "s" >> }

\* The response texts the backend produces in a run: one with an answer, one
\* without.
RunContents ==
  { << "S", "o", " " >> \o MarkerLower \o << " ", "a", ".", "\n" >>,
    << "I", " ", "p", "a", "s", "s" >> }

Letters == {"A", "B", "C"}

NoCall == [op |-> "", text |-> << >>, outputs |-> << >>, answers |-> << >>,
           correct |-> ""]

FnInputs ==
  { [NoCall EXCEPT !.op = "extract_single_answer", !.text = t] : t \in TextInputs }
  \cup
  { [NoCall EXCEPT !.op = "extract_multiple_answers", !.outputs = o] :
      o \in SeqsUpTo(Contents, MaxOutputs) }
  \cup
  { [NoCall EXCEPT !.op = "eval_majority_vote", !.outputs = o, !.correct = c] :
      o \in SeqsUpTo(Contents, MaxOutputs), c \in {"A", "B"} }
  \cup
  { [NoCall EXCEPT !.op = "calculate_majority_vote", !.answers = a, !.correct = c] :
      a \in SeqsUpTo(Letters, MaxAnswers), c \in Letters }

Pending == [done |-> FALSE]

\* ------------------------------------------- direct calls of evaluate.py
CallExtractSingle ==
  /\ fin.op = "extract_single_answer" /\ ~fout.done
  /\ fout' = [done |-> TRUE, result |-> extract_single_answer(fin.text)]
  /\ UNCHANGED << runVars, fin >>

CallExtractMultiple ==
  /\ fin.op = "extract_multiple_answers" /\ ~fout.done
  /\ fout' = [done |-> TRUE, result |-> extract_multiple_answers(fin.outputs)]
  /\ UNCHANGED << runVars, fin >>

CallCalculateMajorityVote ==
  /\ fin.op = "calculate_majority_vote" /\ ~fout.done
  /\ fout' = [done |-> TRUE,
              result |-> calculate_majority_vote(fin.answers, fin.correct)]
  /\ UNCHANGED << runVars, fin >>

CallEvalMajorityVote ==
  /\ fin.op = "eval_majority_vote" /\ ~fout.done
  /\ fout' = [done |-> TRUE,
              result |-> eval_majority_vote(fin.outputs, fin.correct)]
  /\ UNCHANGED << runVars, fin >>


\* ---------------------------------------------------- the run: its inputs
\* A question of the benchmark file; the prompt is sent as it is and plays no
\* part in the control flow, so question_id stands for it.
Questions(n) ==
  { [i \in 1..n |-> [question_id |-> i, answer |-> a[i]]] : a \in [1..n -> {"A", "B"}] }

\* The benchmark file: missing, not JSON, JSON without the key "eval_data",
\* or a list of questions.
BenchmarkFiles ==
  { [state |-> "missing", eval_data |-> << >>],
    [state |-> "malformed", eval_data |-> << >>],
    [state |-> "no_eval_data", eval_data |-> << >>] }
  \cup
  { [state |-> "ok", eval_data |-> d] :
      d \in UNION { Questions(n) : n \in 0..MaxQuestions } }

\* utils.py: --num_responses and --max_retries are any int; the file is given
\* by --benchmark_path.
Args ==
  [ num_responses : 0..MaxResponses,
    max_retries : (-1)..MaxRetries,
    file : BenchmarkFiles ]

\* Python None and a str value, for response["message"]["content"].
None == [none |-> TRUE, str |-> << >>]
Str(t) == [none |-> FALSE, str |-> t]

\* The replies ollama.chat returns: a message with content (possibly ""),
\* a message without content, no message.
ChatReplies ==
  { [message |-> TRUE, content |-> Str(c)] : c \in RunContents \cup {<< >>} }
  \cup
  { [message |-> TRUE, content |-> None], [message |-> FALSE, content |-> None] }

NoExc == [type |-> "", cause |-> << >>]

\* How a call of ollama.chat ends: it returns a reply, raises an Exception, or
\* is interrupted.
NoReply == [message |-> FALSE, content |-> None]
NoOutcome == [kind |-> "", reply |-> NoReply]
Replied(reply) == [kind |-> "reply", reply |-> reply]
Failed(kind) == [kind |-> kind, reply |-> NoReply]

\* ------------------------------------------------ the run: initial state
RunIdle ==
  /\ benchmark_data = << >>
  /\ qi = 1
  /\ responses = << >>
  /\ attempt = 0
  /\ total_score = 0
  /\ final_score = << >>
  /\ exc = NoExc
  /\ exit_code = -1
  /\ chatCalls = 0
  /\ predictCalls = 0
  /\ okPredicts = 0
  /\ lastPrompt = 0
  /\ lastOutcome = NoOutcome
  /\ voteLog = << >>

\* simplellama.py 8-25: arguments parsed, logger and model constructed.
Init ==
  /\ args \in Args
  /\ pc = "load"
  /\ RunIdle
  /\ fin = NoCall
  /\ fout = Pending

\* Mutant: run catches the exception of a question and carries on.
Raise_Resumes(type, cause) ==
  /\ exc' = [type |-> type, cause |-> cause]
  /\ pc' = "run"

\* raise: nothing between the raise and simplellama.py's try catches it
\* (benchmark.py has no handler on this path), so control is at the handlers.
Raise(type, cause) ==
  /\ exc' = [type |-> type, cause |-> cause]
  /\ pc' = "except"

\* --------------------------------- benchmark.py: Benchmark.__init__ (74-111)
\* Mutant: a file that cannot be loaded gives an empty benchmark.
LoadBenchmark_Lenient ==
  /\ pc = "load"
  /\ benchmark_data' = args.file.eval_data
  /\ pc' = "run"
  /\ UNCHANGED << args, qi, responses, attempt, total_score,
                  final_score, exc, exit_code, chatCalls, predictCalls,
                  okPredicts, lastPrompt, lastOutcome, voteLog, fin, fout >>

LoadBenchmark ==
  /\ pc = "load"
  /\ IF args.file.state = "missing"
     THEN Raise("FileNotFoundError", << >>) /\ UNCHANGED benchmark_data
     ELSE IF args.file.state = "malformed"
     THEN Raise("JSONDecodeError", << >>) /\ UNCHANGED benchmark_data
     ELSE IF args.file.state = "no_eval_data"
     THEN Raise("KeyError", << >>) /\ UNCHANGED benchmark_data
     ELSE /\ benchmark_data' = args.file.eval_data
          /\ pc' = "run"
          /\ UNCHANGED exc
  /\ UNCHANGED << args, qi, responses, attempt, total_score,
                  final_score, exit_code, chatCalls, predictCalls, okPredicts,
                  lastPrompt, lastOutcome, voteLog, fin, fout >>

\* ------------------------------------------ benchmark.py: Benchmark.run
\* The generator of line 117 yields the next question: _process_question
\* enters _collect_responses (133-138).
NextQuestion ==
  /\ pc = "run"
  /\ qi <= Len(benchmark_data)
  /\ responses' = << >>
  /\ pc' = "collect"
  /\ UNCHANGED << args, benchmark_data, qi, attempt, total_score,
                  final_score, exc, exit_code, chatCalls, predictCalls,
                  okPredicts, lastPrompt, lastOutcome, voteLog, fin, fout >>

\* The generator is exhausted: line 120.  The score total/len*100 is the
\* fraction << 100 * total, len >>; len = 0 raises ZeroDivisionError.
\* Mutant: an empty benchmark scores 0.
FinalScore_EmptyIsZero ==
  /\ pc = "run"
  /\ qi > Len(benchmark_data)
  /\ final_score' = IF Len(benchmark_data) = 0 THEN << 0, 1 >>
                    ELSE << 100 * total_score, Len(benchmark_data) >>
  /\ pc' = "report"
  /\ UNCHANGED << args, benchmark_data, qi, responses, attempt, exc,
                  total_score, exit_code, chatCalls, predictCalls, okPredicts,
                  lastPrompt, lastOutcome, voteLog, fin, fout >>

FinalScore ==
  /\ pc = "run"
  /\ qi > Len(benchmark_data)
  /\ IF Len(benchmark_data) = 0
     THEN Raise("ZeroDivisionError", << >>) /\ UNCHANGED final_score
     ELSE /\ final_score' = << 100 * total_score, Len(benchmark_data) >>
          /\ pc' = "report"
          /\ UNCHANGED exc
  /\ UNCHANGED << args, benchmark_data, qi, responses, attempt,
                  total_score, exit_code, chatCalls, predictCalls, okPredicts,
                  lastPrompt, lastOutcome, voteLog, fin, fout >>

\* Lines 121-124: the score is logged, printed and returned; benchmarker.run()
\* of simplellama.py line 36 is over.
ReportScore ==
  /\ pc = "report"
  /\ pc' = "else"
  /\ UNCHANGED << args, benchmark_data, qi, responses, attempt, total_score,
                  final_score, exc, exit_code, chatCalls, predictCalls,
                  okPredicts, lastPrompt, lastOutcome, voteLog, fin, fout >>

\* ------------------------- benchmark.py: _collect_responses, the loop (139)
\* range(num_responses) is exhausted once num_responses responses are held.
\* Until then one more response is needed: predict is called (line 140).
\* Mutant: the loop is one iteration short.
CollectionDone_OneShort == Len(responses) >= args.num_responses - 1

CollectionDone == Len(responses) >= args.num_responses

\* Mutant: the attempt counter lives on from one predict call to the next.
CallPredict_KeepsAttempt ==
  /\ pc = "collect"
  /\ ~CollectionDone
  /\ predictCalls' = 0
  /\ pc' = "predict"
  /\ UNCHANGED << args, benchmark_data, qi, responses, attempt, total_score,
                  final_score, exc, exit_code, chatCalls, okPredicts,
                  lastPrompt, lastOutcome, voteLog, fin, fout >>

CallPredict ==
  /\ pc = "collect"
  /\ ~CollectionDone
  /\ attempt' = 0
  /\ predictCalls' = 0
  /\ pc' = "predict"
  /\ UNCHANGED << args, benchmark_data, qi, responses, total_score,
                  final_score, exc, exit_code, chatCalls, okPredicts,
                  lastPrompt, lastOutcome, voteLog, fin, fout >>

\* ------------------------------- benchmark.py: _evaluate_responses (146-154)
\* Mutant: the two scores are swapped.
ScoreOf_Inverted(result) == IF result THEN 0 ELSE 1

\* 1 if result else 0
ScoreOf(result) == IF result THEN 1 ELSE 0

\* The loop of _collect_responses is over: _evaluate_responses votes, logs
\* the vote, and run's sum takes the score; a ValueError propagates.
EvaluateResponses ==
  /\ pc = "collect"
  /\ CollectionDone
  /\ LET question == benchmark_data[qi]
         r == eval_majority_vote(responses, question.answer)
     IN  IF r.raised # ""
         THEN /\ Raise(r.raised, << >>)
              /\ UNCHANGED << qi, total_score, voteLog >>
         ELSE /\ voteLog' = Append(voteLog, << question.question_id, r.is_majority >>)
              /\ total_score' = total_score + ScoreOf(r.is_majority)
              /\ qi' = qi + 1
              /\ pc' = "run"
              /\ UNCHANGED exc
  /\ UNCHANGED << args, benchmark_data, responses, attempt,
                  final_score, exit_code, chatCalls, predictCalls, okPredicts,
                  lastPrompt, lastOutcome, fin, fout >>


\* ----------------------------------------- model.py: _validate_response
\* Mutant: "if content is None", so that "" is returned as content.
_validate_response_NoneOnly(response) ==
  LET content == IF response.message THEN response.content ELSE None
  IN  IF content.none
      THEN Raised("EmptyResponseError")
      ELSE Returned(content.str)

\* response.get("message", {}).get("content"), then "if not content".
_validate_response(response) ==
  LET content == IF response.message THEN response.content ELSE None
  IN  IF content.none \/ content.str = << >>
      THEN Raised("EmptyResponseError")
      ELSE Returned(content.str)

\* ------------------------------------------------ model.py: predict (126-154)
\* Mutant: the first failure raises, there is no retry.
AttemptFailed_NoRetry(e) ==
  Raise("MaxRetriesExceededError", << e >>) /\ UNCHANGED attempt

\* Mutant: the error raised at the end is chained to the first attempt's.
AttemptFailed_FirstCause(e) ==
  IF attempt = args.max_retries - 1
  THEN Raise("MaxRetriesExceededError", << [e EXCEPT !.attempt = 1] >>)
       /\ UNCHANGED attempt
  ELSE attempt' = attempt + 1 /\ UNCHANGED << pc, exc >>

\* The except block, lines 143-151: the last attempt raises
\* MaxRetriesExceededError from e, any other attempt goes round the loop.
AttemptFailed(e) ==
  IF attempt = args.max_retries - 1
  THEN Raise("MaxRetriesExceededError", << e >>) /\ UNCHANGED attempt
  ELSE attempt' = attempt + 1 /\ UNCHANGED << pc, exc >>

\* The call of ollama.chat at line 118, with the prompt of the question.
ChatCalled(outcome) ==
  /\ chatCalls' = chatCalls + 1
  /\ predictCalls' = predictCalls + 1
  /\ lastPrompt' = benchmark_data[qi].question_id
  /\ lastOutcome' = outcome

\* chat returns a reply that _validate_response accepts: predict returns its
\* content, and _collect_responses appends it (line 141).
PredictReturns ==
  /\ pc = "predict"
  /\ attempt < args.max_retries
  /\ \E reply \in ChatReplies :
       /\ _validate_response(reply).raised = ""
       /\ responses' = Append(responses, _validate_response(reply).value)
       /\ ChatCalled(Replied(reply))
  /\ okPredicts' = okPredicts + 1
  /\ pc' = "collect"
  /\ UNCHANGED << args, benchmark_data, qi, attempt, total_score, final_score,
                  exc, exit_code, voteLog, fin, fout >>

\* chat returns a reply that _validate_response rejects.
AttemptEmpty ==
  /\ pc = "predict"
  /\ attempt < args.max_retries
  /\ \E reply \in ChatReplies :
       /\ _validate_response(reply).raised # ""
       /\ AttemptFailed([type |-> _validate_response(reply).raised,
                         attempt |-> attempt + 1])
       /\ ChatCalled(Replied(reply))
  /\ UNCHANGED << args, benchmark_data, qi, responses, total_score,
                  final_score, exit_code, okPredicts, voteLog, fin, fout >>

\* chat raises an Exception (the transport failed).
AttemptRaises ==
  /\ pc = "predict"
  /\ attempt < args.max_retries
  /\ AttemptFailed([type |-> "ConnectionError", attempt |-> attempt + 1])
  /\ ChatCalled(Failed("raised"))
  /\ UNCHANGED << args, benchmark_data, qi, responses, total_score,
                  final_score, exit_code, okPredicts, voteLog, fin, fout >>

\* Mutant: "except BaseException", so that the interrupt is a failed attempt.
AttemptInterrupted_Absorbed ==
  /\ pc = "predict"
  /\ attempt < args.max_retries
  /\ AttemptFailed([type |-> "KeyboardInterrupt", attempt |-> attempt + 1])
  /\ ChatCalled(Failed("interrupted"))
  /\ UNCHANGED << args, benchmark_data, qi, responses, total_score,
                  final_score, exit_code, okPredicts, voteLog, fin, fout >>

\* KeyboardInterrupt arrives inside chat: it is a BaseException, which
\* "except Exception" (line 143) does not catch.
AttemptInterrupted ==
  /\ pc = "predict"
  /\ attempt < args.max_retries
  /\ Raise("KeyboardInterrupt", << >>)
  /\ ChatCalled(Failed("interrupted"))
  /\ UNCHANGED << args, benchmark_data, qi, responses, attempt, total_score,
                  final_score, exit_code, okPredicts, voteLog, fin, fout >>

\* range(max_retries) is exhausted without a raise inside the loop: line 154.
\* Mutant: a loop that made no attempt returns an empty text.
LoopExhausted_Returns ==
  /\ pc = "predict"
  /\ attempt >= args.max_retries
  /\ responses' = Append(responses, << >>)
  /\ okPredicts' = okPredicts + 1
  /\ pc' = "collect"
  /\ UNCHANGED << args, benchmark_data, qi, attempt, total_score,
                  final_score, exc, exit_code, chatCalls, predictCalls,
                  lastPrompt, lastOutcome, voteLog, fin, fout >>

LoopExhausted ==
  /\ pc = "predict"
  /\ attempt >= args.max_retries
  /\ Raise("MaxRetriesExceededError", << >>)
  /\ UNCHANGED << args, benchmark_data, qi, responses, attempt, total_score,
                  final_score, exit_code, chatCalls, predictCalls, okPredicts,
                  lastPrompt, lastOutcome, voteLog, fin, fout >>

\* ------------------------------------------------- simplellama.py: __main__
\* KeyboardInterrupt arrives outside a chat call, anywhere inside the try.
Interrupt ==
  /\ pc \in {"load", "run", "collect", "predict", "report"}
  /\ Raise("KeyboardInterrupt", << >>)
  /\ UNCHANGED << args, benchmark_data, qi, responses, attempt, total_score,
                  final_score, exit_code, chatCalls, predictCalls, okPredicts,
                  lastPrompt, lastOutcome, voteLog, fin, fout >>

\* except KeyboardInterrupt (38-40).
HandleInterrupt ==
  /\ pc = "except"
  /\ exc.type = "KeyboardInterrupt"
  /\ exit_code' = 1
  /\ pc' = "exit"
  /\ UNCHANGED << args, benchmark_data, qi, responses, attempt, total_score,
                  final_score, exc, chatCalls, predictCalls, okPredicts,
                  lastPrompt, lastOutcome, voteLog, fin, fout >>

\* Mutant: the handler logs the error and does not call sys.exit(1), so the
\* interpreter ends with status 0.
HandleException_ExitsZero ==
  /\ pc = "except"
  /\ exc.type # "KeyboardInterrupt"
  /\ exit_code' = 0
  /\ pc' = "exit"
  /\ UNCHANGED << args, benchmark_data, qi, responses, attempt, total_score,
                  final_score, exc, chatCalls, predictCalls, okPredicts,
                  lastPrompt, lastOutcome, voteLog, fin, fout >>

\* except Exception (41-43).
HandleException ==
  /\ pc = "except"
  /\ exc.type # "KeyboardInterrupt"
  /\ exit_code' = 1
  /\ pc' = "exit"
  /\ UNCHANGED << args, benchmark_data, qi, responses, attempt, total_score,
                  final_score, exc, chatCalls, predictCalls, okPredicts,
                  lastPrompt, lastOutcome, voteLog, fin, fout >>

\* else (44-46).
MainElse ==
  /\ pc = "else"
  /\ exit_code' = 0
  /\ pc' = "exit"
  /\ UNCHANGED << args, benchmark_data, qi, responses, attempt, total_score,
                  final_score, exc, chatCalls, predictCalls, okPredicts,
                  lastPrompt, lastOutcome, voteLog, fin, fout >>

\* --------------------------------------------------------- specifications
Next ==
  \/ LoadBenchmark
  \/ NextQuestion
  \/ FinalScore
  \/ ReportScore
  \/ CallPredict
  \/ EvaluateResponses
  \/ PredictReturns
  \/ AttemptEmpty
  \/ AttemptRaises
  \/ AttemptInterrupted
  \/ LoopExhausted
  \/ Interrupt
  \/ HandleInterrupt
  \/ HandleException
  \/ MainElse

\* A run of the program.
Spec == Init /\ [][Next]_vars

\* A direct call of one function of evaluate.py on arguments of any value.
InitFn ==
  /\ fin \in FnInputs
  /\ fout = Pending
  /\ args = [num_responses |-> 0, max_retries |-> 0,
             file |-> [state |-> "missing", eval_data |-> << >>]]
  /\ pc = "idle"
  /\ RunIdle

NextFn ==
  \/ CallExtractSingle
  \/ CallExtractMultiple
  \/ CallCalculateMajorityVote
  \/ CallEvalMajorityVote

SpecFn == InitFn /\ [][NextFn]_vars


\* ================================================================= claims
\* What the claims say about a text, stated on the text itself and not by
\* the search of extract_single_answer.
ValidLetters == {"A", "B", "C", "D", "E", "F"}

MarkerUpper == [i \in DOMAIN Marker |-> ToUpper(Marker[i])]

\* Positions where "Final Answer:" stands in t, in any letter case.
MarkerStarts(t) ==
  { p \in 1..(Len(t) - Len(Marker) + 1) :
      \A k \in DOMAIN MarkerUpper : ToUpper(t[p + k - 1]) = MarkerUpper[k] }

\* << p, g >>: the marker stands at p, only whitespace lies between it and
\* position g, and g holds a letter of A-F in either case.
Occurrences(t) ==
  { o \in MarkerStarts(t) \X (1..Len(t)) :
      /\ o[2] >= o[1] + Len(Marker)
      /\ \A j \in (o[1] + Len(Marker))..(o[2] - 1) : IsSpace(t[j])
      /\ ToUpper(t[o[2]]) \in ValidLetters }

Extractable(t) == Occurrences(t) # {}

\* The letter of the leftmost occurrence, uppercased.
FirstLetter(t) ==
  LET occ == Occurrences(t)
      o == CHOOSE o \in occ : \A o2 \in occ : o[1] <= o2[1]
  IN  ToUpper(t[o[2]])

\* The entries of a list equal to c, and the others.
Matching(a, c) == { i \in DOMAIN a : a[i] = c }
Others(a, c) == { i \in DOMAIN a : a[i] # c }

IsFailure(outcome) ==
  \/ outcome.kind = "raised"
  \/ /\ outcome.kind = "reply"
     /\ \/ ~outcome.reply.message
        \/ outcome.reply.content.none
        \/ outcome.reply.content.str = << >>

\* ---------------------------------------------------------------------- C1
\* C1: with max_retries >= 1, predict makes at most max_retries backend
\* calls; it raises MaxRetriesExceededError only after exactly max_retries
\* calls that all failed; and when it returns, it returns the content of the
\* reply of its last call, which is call number (failed attempts + 1), the
\* first call that succeeded.
C1_RetryContract ==
  args.max_retries >= 1 =>
    /\ predictCalls <= args.max_retries
    /\ (pc = "predict" =>
          /\ predictCalls = attempt
          /\ attempt < args.max_retries
          /\ (attempt > 0 => IsFailure(lastOutcome)))
    /\ (exc.type = "MaxRetriesExceededError" =>
          /\ predictCalls = args.max_retries
          /\ IsFailure(lastOutcome))
    /\ (pc = "collect" /\ responses # << >> =>
          /\ lastOutcome.kind = "reply"
          /\ ~IsFailure(lastOutcome)
          /\ responses[Len(responses)] = lastOutcome.reply.content.str
          /\ predictCalls = attempt + 1)

\* A predict call ran out of retries after an earlier predict call of the
\* same run had returned on a retry.
C1_Witness ==
  /\ exc.type = "MaxRetriesExceededError"
  /\ args.max_retries >= 2
  /\ okPredicts >= 1
  /\ chatCalls > okPredicts + args.max_retries

\* ---------------------------------------------------------------------- C2
\* C2: on a non-empty list the vote is true exactly when the entries equal to
\* the correct answer outnumber all the other entries; 2 of 4 is false, and a
\* single matching answer is true.
C2_StrictMajority ==
  (fin.op = "calculate_majority_vote" /\ fout.done /\ fin.answers # << >>) =>
    LET m == Cardinality(Matching(fin.answers, fin.correct))
        o == Cardinality(Others(fin.answers, fin.correct))
    IN  /\ fout.result = (m > o)
        /\ (m = o => fout.result = FALSE)
        /\ (fin.answers = << fin.correct >> => fout.result = TRUE)

\* A vote on four answers of which exactly two are correct.
C2_Witness ==
  /\ fin.op = "calculate_majority_vote" /\ fout.done
  /\ Len(fin.answers) = 4
  /\ Cardinality(Matching(fin.answers, fin.correct)) = 2

\* ---------------------------------------------------------------------- C3
\* C3 as stated: a vote on an empty list of extracted answers fails with the
\* no-valid-answers error and never returns a boolean, in
\* calculate_majority_vote and in eval_majority_vote alike.
C3_Original ==
  fout.done =>
    /\ (fin.op = "calculate_majority_vote" /\ fin.answers = << >> =>
          fout.result \notin BOOLEAN)
    /\ (fin.op = "eval_majority_vote"
          /\ (\A i \in DOMAIN fin.outputs : ~Extractable(fin.outputs[i])) =>
          fout.result.raised = "ValueError")

\* C3 as amended: eval_majority_vote raises ValueError, for any correct
\* answer, exactly when no output yields an answer, and then returns no vote;
\* calculate_majority_vote called on an empty list returns False.
C3_Amended ==
  fout.done =>
    /\ (fin.op = "calculate_majority_vote" /\ fin.answers = << >> =>
          fout.result = FALSE)
    /\ (fin.op = "eval_majority_vote" =>
          (fout.result.raised = "ValueError")
            = (\A i \in DOMAIN fin.outputs : ~Extractable(fin.outputs[i])))
    /\ (fin.op = "eval_majority_vote" /\ fout.result.raised = "" =>
          fout.result.answers # << >>)

\* eval_majority_vote was called on two or more outputs, none with an answer.
C3_Witness ==
  /\ fin.op = "eval_majority_vote" /\ fout.done
  /\ Len(fin.outputs) >= 2
  /\ \A i \in DOMAIN fin.outputs : ~Extractable(fin.outputs[i])

\* ---------------------------------------------------------------------- C4
\* C4 as stated: whatever occurrence of the marker, optional whitespace and a
\* letter X of A-F the text holds, extract_single_answer returns X uppercased;
\* a text with no occurrence raises AnswerExtractionError.
C4_Original ==
  (fin.op = "extract_single_answer" /\ fout.done) =>
    /\ \A o \in Occurrences(fin.text) :
         fout.result = Returned(<< ToUpper(fin.text[o[2]]) >>)
    /\ (~Extractable(fin.text) => fout.result = Raised("AnswerExtractionError"))

\* C4 as amended: a text that holds such an occurrence yields the uppercased
\* letter of the leftmost one; a text with none raises AnswerExtractionError.
C4_Amended ==
  (fin.op = "extract_single_answer" /\ fout.done) =>
    IF Extractable(fin.text)
    THEN fout.result = Returned(<< FirstLetter(fin.text) >>)
    ELSE fout.result = Raised("AnswerExtractionError")

\* A text with two occurrences that hold different letters, the first of
\* them with whitespace before its lower-case letter.
C4_Witness ==
  /\ fin.op = "extract_single_answer" /\ fout.done
  /\ \E o1, o2 \in Occurrences(fin.text) :
       /\ o1[1] < o2[1]
       /\ ToUpper(fin.text[o1[2]]) # ToUpper(fin.text[o2[2]])
       /\ o1[2] > o1[1] + Len(Marker)
       /\ fin.text[o1[2]] = "f"

\* ---------------------------------------------------------------------- C5
\* C5: extract_multiple_answers returns a list of letters for every list of
\* outputs: the letters of the outputs that hold an answer, in input order,
\* the others dropped, so the list is no longer than the input and as long as
\* the number of outputs with an answer; and eval_majority_vote fails only
\* when no output at all holds an answer.
C5_BatchExtraction ==
  /\ (fin.op = "extract_multiple_answers" /\ fout.done) =>
       LET r == fout.result
           idx == { i \in DOMAIN fin.outputs : Extractable(fin.outputs[i]) }
       IN  /\ DOMAIN r = 1..Cardinality(idx)
           /\ Len(r) <= Len(fin.outputs)
           /\ \A i \in idx :
                r[Cardinality({k \in idx : k <= i})] = FirstLetter(fin.outputs[i])
  /\ (fin.op = "eval_majority_vote" /\ fout.done
        /\ (\E i \in DOMAIN fin.outputs : Extractable(fin.outputs[i]))) =>
       /\ fout.result.raised = ""
       /\ Len(fout.result.answers) <= Len(fin.outputs)

\* Three outputs were given: the first has no answer, a later one has.
C5_Witness ==
  /\ fin.op = "extract_multiple_answers" /\ fout.done
  /\ Len(fin.outputs) = 3
  /\ ~Extractable(fin.outputs[1])
  /\ Extractable(fin.outputs[3])


\* ---------------------------------------------------------------------- C6
\* C6: the running sum is the number of questions voted correct so far, so
\* between 0 and the number of questions voted on; and a final score, once
\* computed, is 100 * (questions voted correct) / (questions) over all the
\* questions of a non-empty benchmark, between 0 and 100.
Passes == Cardinality({ i \in DOMAIN voteLog : voteLog[i][2] })

C6_Score ==
  /\ total_score = Passes
  /\ total_score \in 0..Len(voteLog)
  /\ (final_score # << >> =>
        /\ Len(benchmark_data) > 0
        /\ Len(voteLog) = Len(benchmark_data)
        /\ final_score = << 100 * Passes, Len(benchmark_data) >>
        /\ 0 <= final_score[1]
        /\ final_score[1] <= 100 * final_score[2])

\* A run over two questions ended with one of them voted correct.
C6_Witness ==
  /\ final_score # << >>
  /\ Len(benchmark_data) = 2
  /\ Passes = 1

\* ---------------------------------------------------------------------- C7
\* C7: once a predict call has raised MaxRetriesExceededError, that error
\* stays the run's error, no backend call follows, the question it was
\* collecting for has no vote, no vote or score is added, no final score is
\* ever computed, and the run ends with exit status 1.
C7_AbortedByRetries == exc.type = "MaxRetriesExceededError"

C7_RetryExhaustionAborts ==
  /\ [](C7_AbortedByRetries =>
          /\ final_score = << >>
          /\ pc \in {"except", "exit"}
          /\ \A i \in DOMAIN voteLog :
               voteLog[i][1] # benchmark_data[qi].question_id)
  /\ [][C7_AbortedByRetries =>
          /\ exc' = exc
          /\ chatCalls' = chatCalls
          /\ voteLog' = voteLog
          /\ total_score' = total_score
          /\ final_score' = << >>
          /\ exit_code' = 1]_vars

\* A run ended on retry exhaustion in the middle of a question, with a
\* response already collected for it and a later question left.
C7_Witness ==
  /\ exc.type = "MaxRetriesExceededError"
  /\ pc = "exit"
  /\ Len(responses) >= 1
  /\ qi < Len(benchmark_data)

\* ---------------------------------------------------------------------- C8
\* C8: when all num_responses responses of a question are collected and none
\* holds an answer, the question gets no vote and no score and the run is
\* left with ValueError; with that error in flight no backend call was made
\* for a later question or is made afterwards, and no final score exists.
NoneExtractable == \A i \in DOMAIN responses : ~Extractable(responses[i])

C8_AbortedByNoAnswers == exc.type = "ValueError"

C8_NoValidAnswersAborts ==
  /\ [](C8_AbortedByNoAnswers =>
          /\ NoneExtractable
          /\ Len(responses) = args.num_responses
          /\ final_score = << >>
          /\ Len(voteLog) = qi - 1
          /\ (chatCalls > 0 => lastPrompt = benchmark_data[qi].question_id))
  /\ [][/\ (pc = "collect" /\ CollectionDone /\ NoneExtractable =>
              /\ exc'.type \in {"ValueError", "KeyboardInterrupt"}
              /\ voteLog' = voteLog
              /\ total_score' = total_score)
        /\ (C8_AbortedByNoAnswers =>
              /\ exc' = exc
              /\ chatCalls' = chatCalls
              /\ voteLog' = voteLog
              /\ final_score' = << >>
              /\ exit_code' = 1)]_vars

\* A run ended on a question with two responses and no answer in them, with
\* a later question left.
C8_Witness ==
  /\ exc.type = "ValueError"
  /\ pc = "exit"
  /\ Len(responses) >= 2
  /\ qi < Len(benchmark_data)

\* ---------------------------------------------------------------------- C9
\* C9: votes are logged in benchmark order; every backend call sends the
\* prompt of the first question not yet voted on, while that question still
\* lacks responses; predict calls return one at a time, each adding one
\* response; a question is voted on, and scored in the same step, only with
\* exactly num_responses responses collected; so the predict calls returned
\* so far are num_responses for each voted question plus those of the
\* question being collected.
C9_Sequential ==
  /\ [](/\ \A i \in DOMAIN voteLog :
             voteLog[i][1] = benchmark_data[i].question_id
        /\ Len(responses) <= args.num_responses
        /\ (pc \in {"collect", "predict"} =>
              okPredicts = args.num_responses * Len(voteLog) + Len(responses))
        /\ (pc \in {"run", "else"} =>
              okPredicts = args.num_responses * Len(voteLog)))
  /\ [][/\ (chatCalls' # chatCalls =>
              /\ chatCalls' = chatCalls + 1
              /\ Len(responses) < args.num_responses
              /\ Len(voteLog) < Len(benchmark_data)
              /\ lastPrompt' = benchmark_data[Len(voteLog) + 1].question_id)
        /\ (okPredicts' # okPredicts =>
              /\ okPredicts' = okPredicts + 1
              /\ chatCalls' = chatCalls + 1
              /\ Len(responses') = Len(responses) + 1)
        /\ (voteLog' # voteLog =>
              /\ Len(responses) = args.num_responses
              /\ Len(voteLog') = Len(voteLog) + 1
              /\ SubSeq(voteLog', 1, Len(voteLog)) = voteLog
              /\ total_score' \in {total_score, total_score + 1}
              /\ chatCalls' = chatCalls)]_vars

\* A run of two questions with two responses each ended with exit status 0,
\* after at least one retry.
C9_Witness ==
  /\ exit_code = 0
  /\ Len(voteLog) = 2
  /\ args.num_responses = 2
  /\ chatCalls > okPredicts

\* --------------------------------------------------------------------- C10
\* C10: no response predict has returned is empty; and a backend call that
\* ends with a reply of empty or missing content returns nothing and uses up
\* one attempt, exactly as a call that raises does: the loop goes on to the
\* next attempt if one remains, and otherwise predict raises
\* MaxRetriesExceededError, caused by EmptyResponseError for such a reply.
EmptyReply(outcome) == outcome.kind = "reply" /\ IsFailure(outcome)

C10_EmptyIsFailure ==
  /\ [](\A i \in DOMAIN responses : responses[i] # << >>)
  /\ [][(chatCalls' # chatCalls /\ IsFailure(lastOutcome')) =>
          /\ responses' = responses
          /\ okPredicts' = okPredicts
          /\ IF attempt + 1 < args.max_retries
             THEN attempt' = attempt + 1 /\ pc' = "predict" /\ exc' = NoExc
             ELSE /\ exc'.type = "MaxRetriesExceededError"
                  /\ exc'.cause # << >>
                  /\ (exc'.cause[1].type = "EmptyResponseError")
                       = EmptyReply(lastOutcome')]_vars

\* The first attempt of a predict call got a reply with content "", and a
\* second attempt is due.
C10_Witness ==
  /\ pc = "predict"
  /\ attempt = 1
  /\ lastOutcome = Replied([message |-> TRUE, content |-> Str(<< >>)])

C12_Interrupted == exc.type = "KeyboardInterrupt"

C12_InterruptAborts ==
  /\ [](C12_Interrupted =>
          /\ pc \in {"except", "exit"}
          /\ exc.cause = << >>
          /\ (final_score # << >> => Len(voteLog) = Len(benchmark_data)))
  /\ [][/\ (chatCalls' # chatCalls /\ lastOutcome'.kind = "interrupted" =>
              C12_Interrupted')
        /\ (~C12_Interrupted /\ C12_Interrupted' =>
              /\ pc' = "except"
              /\ attempt' = attempt
              /\ responses' = responses
              /\ okPredicts' = okPredicts
              /\ voteLog' = voteLog
              /\ total_score' = total_score
              /\ final_score' = final_score)
        /\ (C12_Interrupted =>
              /\ exc' = exc
              /\ chatCalls' = chatCalls
              /\ voteLog' = voteLog
              /\ total_score' = total_score
              /\ final_score' = final_score
              /\ exit_code' = 1)]_vars

\* A run ended by an interrupt inside the second chat call of a predict
\* call, after an earlier predict call had returned.
C12_Witness ==
  /\ pc = "exit"
  /\ exc.type = "KeyboardInterrupt"
  /\ lastOutcome.kind = "interrupted"
  /\ predictCalls >= 2
  /\ okPredicts >= 1

\* --------------------------------------------------------------------- C13
\* C13: when the benchmark file is missing, is not JSON or has no "eval_data",
\* the run never gets past the construction of Benchmark: the error of the
\* load (FileNotFoundError, JSONDecodeError, KeyError) or an interrupt is the
\* exception in flight as soon as the load is over, no benchmark data is
\* held, no backend call, vote or score is ever made, and the exit status
\* is 1.
LoadError ==
  [missing |-> "FileNotFoundError", malformed |-> "JSONDecodeError",
   no_eval_data |-> "KeyError"]

C13_LoadFailureIsFatal ==
  args.file.state # "ok" =>
    /\ pc \in {"load", "except", "exit"}
    /\ benchmark_data = << >>
    /\ chatCalls = 0
    /\ okPredicts = 0
    /\ voteLog = << >>
    /\ final_score = << >>
    /\ (pc # "load" =>
          exc.type \in {LoadError[args.file.state], "KeyboardInterrupt"})
    /\ (pc = "exit" => exit_code = 1)

\* A run with a file that is not JSON, one response or more per question and
\* one retry or more, ended on JSONDecodeError.
C13_Witness ==
  /\ args.file.state = "malformed"
  /\ args.num_responses >= 1
  /\ args.max_retries >= 1
  /\ exc.type = "JSONDecodeError"
  /\ pc = "exit"

\* --------------------------------------------------------------------- C14
IsLetter(c) == \E i \in DOMAIN UpperCase : UpperCase[i] = ToUpper(c)

\* C14 as stated: extract_single_answer succeeds only on the marker followed
\* by optional whitespace and exactly one letter of A-F.  Every value it
\* returns is one of A..F and is the letter of an occurrence of the marker
\* whose letter is not followed by another letter; on a text where every
\* marker is followed by a letter outside A-F or by more than one letter it
\* raises AnswerExtractionError.
C14_ExactlyOneLetter ==
  (fin.op = "extract_single_answer" /\ fout.done /\ fout.result.raised = "") =>
    /\ Len(fout.result.value) = 1
    /\ fout.result.value[1] \in ValidLetters
    /\ \E o \in Occurrences(fin.text) :
         /\ ToUpper(fin.text[o[2]]) = fout.result.value[1]
         /\ (o[2] < Len(fin.text) => ~IsLetter(fin.text[o[2] + 1]))

\* --------------------------------------------------------------------- C15
\* The exception a failed backend call leaves in predict's except block.
ErrorOf(outcome) ==
  IF EmptyReply(outcome) THEN "EmptyResponseError" ELSE "ConnectionError"

\* The cause is the error of the last backend call of the predict call.
C15_CauseIsLastError ==
  /\ exc.cause # << >>
  /\ exc.cause[1].attempt = predictCalls
  /\ exc.cause[1].type = ErrorOf(lastOutcome)

C16_Budget ==
  IF args.max_retries >= 1
  THEN Len(benchmark_data) * args.num_responses * args.max_retries
  ELSE 0

\* The steps a predict call has left at most: one per attempt left, and the
\* raise after the loop.
C16_PredictLeft ==
  1 + (IF args.max_retries > attempt THEN args.max_retries - attempt ELSE 0)

\* The steps of one response: the call of predict and the steps inside it.
C16_PerResponse == 2 + (IF args.max_retries > 0 THEN args.max_retries ELSE 0)

\* The steps of one question: the start of its collection, its responses,
\* its vote.
C16_PerQuestion == 2 + args.num_responses * C16_PerResponse

\* An upper bound of the steps the run has left: the variant of the loops of
\* run, _collect_responses and predict.
C16_StepsLeft ==
  LET Q == IF pc = "load" THEN Len(args.file.eval_data) ELSE Len(benchmark_data)
      later == 3 + (IF Q >= qi THEN (Q - qi) * C16_PerQuestion ELSE 0)
      toCollect == args.num_responses - Len(responses)
  IN  CASE pc = "exit" -> 0
        [] pc \in {"except", "else"} -> 1
        [] pc = "report" -> 2
        [] pc = "run" -> IF qi <= Q THEN later + C16_PerQuestion ELSE 3
        [] pc = "load" -> later + C16_PerQuestion + 1
        [] pc = "collect" -> later + 1 + toCollect * C16_PerResponse
        [] pc = "predict" ->
             later + 1 + (toCollect - 1) * C16_PerResponse + C16_PredictLeft

\* A step of the program that is not an interrupt can be taken.  (The vote
\* of EvaluateResponses is a total function: it returns or raises.)
C16_CanStep ==
  IF pc = "collect" /\ CollectionDone
  THEN /\ qi \in DOMAIN benchmark_data
       /\ eval_majority_vote(responses, benchmark_data[qi].answer).raised
            \in {"", "ValueError"}
  ELSE ENABLED (\/ LoadBenchmark \/ NextQuestion \/ FinalScore \/ ReportScore
                \/ CallPredict \/ PredictReturns \/ AttemptRaises
                \/ LoopExhausted \/ HandleInterrupt \/ HandleException
                \/ MainElse)

\* C16: every predict call starts with its full budget of max_retries
\* attempts, whatever failed in the calls before it; a run never makes more
\* than Q * num_responses * max_retries backend calls, and a run that
\* completed made Q * num_responses of them or more, one successful call per
\* response; and every run ends, with a score or with an abort: each step,
\* a backend call that returns or fails included, lowers a bound of the steps
\* left, and the run stops nowhere but at its exit.
C16_BoundedWork ==
  /\ [](/\ chatCalls <= C16_Budget
        /\ (pc = "predict" => predictCalls = attempt)
        /\ (exit_code = 0 =>
              /\ okPredicts = Len(benchmark_data) * args.num_responses
              /\ chatCalls >= okPredicts
              /\ final_score # << >>))
  /\ [][pc = "collect" /\ pc' = "predict" =>
          /\ attempt' = 0
          /\ predictCalls' = 0
          /\ chatCalls' = chatCalls]_vars
  /\ [](C16_StepsLeft >= 0)
  /\ [][C16_StepsLeft' < C16_StepsLeft]_vars
  /\ []((pc = "exit") = (exit_code \in {0, 1}))
  /\ [](pc # "exit" => C16_CanStep)

\* A completed run in which every predict call of two questions with two
\* responses each failed once and then succeeded: the budget is used up.
C16_Witness ==
  /\ exit_code = 0
  /\ Len(benchmark_data) = 2
  /\ args.num_responses = 2
  /\ args.max_retries = 2
  /\ chatCalls = C16_Budget

C18_EmptyList == args.file.state = "ok" /\ args.file.eval_data = << >>

\* C18: a run over an empty question list never collects a response, calls
\* the backend or votes, and never has a score: the step of run that would
\* compute it raises ZeroDivisionError (unless an interrupt comes first),
\* and the run exits with status 1.  ZeroDivisionError arises in no other
\* run.
C18_EmptyBenchmarkFails ==
  /\ [](C18_EmptyList =>
          /\ pc \in {"load", "run", "except", "exit"}
          /\ chatCalls = 0
          /\ okPredicts = 0
          /\ voteLog = << >>
          /\ final_score = << >>
          /\ (pc \in {"except", "exit"} =>
                exc.type \in {"ZeroDivisionError", "KeyboardInterrupt"})
          /\ (pc = "exit" => exit_code = 1))
  /\ [](exc.type = "ZeroDivisionError" => C18_EmptyList /\ exc.cause = << >>)
  /\ [][C18_EmptyList /\ pc = "run" => pc' = "except"]_vars

\* A run over an empty question list, set to ask for responses and to retry,
\* ended on ZeroDivisionError.
C18_Witness ==
  /\ C18_EmptyList
  /\ args.num_responses >= 1
  /\ args.max_retries >= 1
  /\ exc.type = "ZeroDivisionError"
  /\ pc = "exit"
  /\ exit_code = 1

====
